---- MODULE Spec2Model ----
(***************************************************************************)
(* Model of twitchbot.go: the BasicBot chat session (Connect, Disconnect,  *)
(* JoinChannel, HandleChat, Say, ReadCredentials) and its driver Start.    *)
(*                                                                         *)
(* Strings are sequences of one-character strings, so concatenation,       *)
(* comparison and the msgRegex match are computed character by character.  *)
(* Every method is an operator from a bot record to a bot record; an       *)
(* action applies one method (with everything it calls) and commits the    *)
(* result.  A nil dereference is a Go panic: it stops the process.         *)
(***************************************************************************)
EXTENDS Naturals, Sequences, FiniteSets

VARIABLES
    pc,        \* position of the caller: Start's program counter, or "idle" for a client of the interface
    conn,      \* bb.conn: Nil or the id of a connection handle
    open,      \* the handles the process holds open (dialed and not yet closed)
    creds,     \* bb.Credentials: <<>> is the nil pointer, <<p>> points to OAuthCred{Password: p}
    ret,       \* the error HandleChat last returned: "none" (not returned), "nil", "err"
    inStart,   \* TRUE when Start is on the call stack
    attempts,  \* number of net.Dial calls made so far
    reads,     \* number of tp.ReadLine calls made by the running HandleChat
    trace      \* the I/O events of the current window, in program order

vars == <<pc, conn, open, creds, ret, inStart, attempts, reads, trace>>

----------------------------------------------------------------------------
(* Bounds *)

MaxAttempts == 2
MaxReads == 2
MsgRate == 20

(* The delay of Start before a reconnect, in milliseconds *)
RetryDelayMs == 1000

Nil == 0

----------------------------------------------------------------------------
(* Text *)

Tmi == <<"t","m","i",".","t","w","i","t","c","h",".","t","v">>
CRLF == <<"\r","\n">>
PRIVMSG == <<"P","R","I","V","M","S","G">>

(* Session configuration (fields Channel and Name of BasicBot) *)
Channel == <<"b","o","b">>
Name == <<"b","o","t">>

(* The password in a well-formed credential file *)
Secret == <<"o","a","u","t","h",":","x">>

PingLine == <<"P","I","N","G"," ",":">> \o Tmi
PongLine == <<"P","O","N","G",":"," ">> \o Tmi \o CRLF
ShutdownCmd == <<"!","t","b","d","o","w","n">>
Goodbye == <<"g","o","o","d","b","y","e">>

PassLine == <<"P","A","S","S"," ">>
NickLine == <<"N","I","C","K"," ">>
JoinLine == <<"J","O","I","N"," ","#">>
PrivmsgPrefix == <<"P","R","I","V","M","S","G"," ","#">>

Lower == {"a","b","c","d","e","f","g","h","i","j","k","l","m",
          "n","o","p","q","r","s","t","u","v","w","x","y","z"}
Upper == {"A","B","C","D","E","F","G","H","I","J","K","L","M",
          "N","O","P","Q","R","S","T","U","V","W","X","Y","Z"}
Digit == {"0","1","2","3","4","5","6","7","8","9"}

(* the class [A-Za-z0-9] in place of \w: no underscore *)
WordCharNoUnderscore == Lower \cup Upper \cup Digit

(* \w of the regexp syntax *)
WordChar == Lower \cup Upper \cup Digit \cup {"_"}

----------------------------------------------------------------------------
(* msgRegex.  From the start of the line to its end: ":", a captured run of
   \w (the user), "!", a run of \w, "@", a run of \w, ".tmi.twitch.tv ", the
   captured literal PRIVMSG, " #", a run of \w, and optionally " :" followed
   by the captured rest of the line (any characters but a newline).  Every
   run of \w has at least one character. *)

(* lit occurs in s at position i *)
HasAt(s, i, lit) ==
    /\ i + Len(lit) - 1 <= Len(s)
    /\ \A k \in 1..Len(lit) : s[i + k - 1] = lit[k]

(* \w+ at position i is greedy and every continuation of the pattern starts
   with a character outside \w, so it ends at the first such character:
   the position just after the longest run of \w characters from i *)
WordEnd(s, i) ==
    CHOOSE j \in i..(Len(s) + 1) :
        /\ \A k \in i..(j - 1) : s[k] \in WordChar
        /\ j = Len(s) + 1 \/ s[j] \notin WordChar

(* the literal between the host and the channel: "\.tmi\.twitch\.tv (PRIVMSG) #" *)
RegexMiddle == <<".">> \o Tmi \o <<" ">> \o PRIVMSG \o <<" ","#">>

(* msgRegex.FindStringSubmatch(line): <<>> is nil, otherwise
   <<matches[0], matches[1], matches[2], matches[3]>> *)
FindStringSubmatch(line) ==
    IF ~HasAt(line, 1, <<":">>) THEN <<>> ELSE
    LET u == WordEnd(line, 2) IN
    IF u = 2 \/ ~HasAt(line, u, <<"!">>) THEN <<>> ELSE
    LET i == WordEnd(line, u + 1) IN
    IF i = u + 1 \/ ~HasAt(line, i, <<"@">>) THEN <<>> ELSE
    LET h == WordEnd(line, i + 1) IN
    IF h = i + 1 \/ ~HasAt(line, h, RegexMiddle) THEN <<>> ELSE
    LET c0 == h + Len(RegexMiddle)
        c == WordEnd(line, c0)
        user == SubSeq(line, 2, u - 1)
    IN
    IF c = c0 THEN <<>>
    ELSE IF c = Len(line) + 1 THEN <<line, user, PRIVMSG, <<>>>>
    ELSE IF /\ HasAt(line, c, <<" ",":">>)
            /\ \A k \in (c + 2)..Len(line) : line[k] # "\n"
         THEN <<line, user, PRIVMSG, SubSeq(line, c + 2, Len(line))>>
    ELSE <<>>

----------------------------------------------------------------------------
(* Events and the bot record *)

Ev(op, data, ms, ok) == [op |-> op, data |-> data, ms |-> ms, ok |-> ok]

(* fmt.Printf / fmt.Println: the observability channel, one tag per call site *)
Printf(b, tag) ==
    IF b.panic THEN b
    ELSE [b EXCEPT !.trace = Append(@, Ev("print", <<tag>>, 0, TRUE))]

(* a nil dereference in function fn: the goroutine panics, nothing after it runs *)
Panic(b, fn) ==
    IF b.panic THEN b
    ELSE [b EXCEPT !.panic = TRUE,
                   !.trace = Append(@, Ev("panic", <<fn>>, 0, FALSE))]

(* fmt.Printf("[%s] %s: %s\n", timeStamp(), userName, msg): the text after
   the timestamp, character by character *)
PrintChat(b, userName, msg) ==
    IF b.panic THEN b
    ELSE [b EXCEPT !.trace = Append(@, Ev("print", userName \o <<":"," ">> \o msg, 0, TRUE))]

(* time.Sleep(ms) *)
Sleep(b, ms) ==
    IF b.panic THEN b
    ELSE [b EXCEPT !.trace = Append(@, Ev("sleep", <<>>, ms, TRUE))]

(* bb.conn.Write(data) called from fn: panics on the nil interface, fails on a
   closed handle, and on an open one succeeds or fails (ok) as the transport does *)
ConnWrite(b, fn, data, ok) ==
    IF b.panic THEN b
    ELSE IF b.conn = Nil THEN Panic(b, fn)
    ELSE [b EXCEPT !.trace =
            Append(@, Ev("write", data, 0, ok /\ b.conn \in b.open))]

(* the last write of b succeeded *)
LastWriteOk(b) == b.trace[Len(b.trace)].ok

----------------------------------------------------------------------------
(* The methods of BasicBot, as operators on the bot record
   [conn, open, creds, trace, panic] *)

(* Connect: net.Dial assigns bb.conn its result, the new handle h when it
   succeeds (ok) and the nil interface when it fails *)
Connect(b, h, ok) ==
    IF b.panic THEN b ELSE
    LET b1 == Printf(b, "Connecting")
        b2 == [b1 EXCEPT !.conn = IF ok THEN h ELSE Nil,
                         !.open = IF ok THEN @ \cup {h} ELSE @,
                         !.trace = Append(@, Ev("dial", <<>>, 0, ok))]
    IN IF ok THEN b2 ELSE Printf(b2, "Cannot connect")

(* Disconnect without the Close call: the handle stays open *)
DisconnectNoClose(b) ==
    IF b.panic THEN b
    ELSE IF b.conn = Nil THEN Panic(b, "Disconnect")
    ELSE Printf(b, "Closed connection")

(* Disconnect that also resets bb.conn to nil *)
DisconnectClearsConn(b) ==
    IF b.panic THEN b
    ELSE IF b.conn = Nil THEN Panic(b, "Disconnect")
    ELSE Printf([b EXCEPT !.open = @ \ {b.conn},
                          !.conn = Nil,
                          !.trace = Append(@, Ev("close", <<>>, 0, b.conn \in b.open))],
                "Closed connection")

(* Disconnect: bb.conn.Close() dereferences bb.conn; on a handle that is
   already closed Close returns an error, which is dropped *)
Disconnect(b) ==
    IF b.panic THEN b
    ELSE IF b.conn = Nil THEN Panic(b, "Disconnect")
    ELSE Printf([b EXCEPT !.open = @ \ {b.conn},
                          !.trace = Append(@, Ev("close", <<>>, 0, b.conn \in b.open))],
                "Closed connection")

(* JoinChannel with the nickname sent before the password *)
JoinChannelNickFirst(b, o1, o2, o3) ==
    IF b.panic THEN b ELSE
    LET b0 == Printf(b, "Joining") IN
    IF b.creds = <<>> THEN Panic(b0, "JoinChannel") ELSE
    LET b1 == ConnWrite(b0, "JoinChannel", NickLine \o Name \o CRLF, o1)
        b2 == ConnWrite(b1, "JoinChannel", PassLine \o b.creds[1] \o CRLF, o2)
        b3 == ConnWrite(b2, "JoinChannel", JoinLine \o Channel \o CRLF, o3)
    IN Printf(b3, "Joined")

(* JoinChannel: three writes whose results are dropped; o1, o2, o3 are the
   transport's outcomes *)
JoinChannel(b, o1, o2, o3) ==
    IF b.panic THEN b ELSE
    LET b0 == Printf(b, "Joining") IN
    IF b.creds = <<>> THEN Panic(b0, "JoinChannel") ELSE
    LET b1 == ConnWrite(b0, "JoinChannel", PassLine \o b.creds[1] \o CRLF, o1)
        b2 == ConnWrite(b1, "JoinChannel", NickLine \o Name \o CRLF, o2)
        b3 == ConnWrite(b2, "JoinChannel", JoinLine \o Channel \o CRLF, o3)
    IN Printf(b3, "Joined")

(* Say without the check of the empty message *)
SayNoEmptyCheck(b, msg, ok) ==
    IF b.panic THEN [bot |-> b, err |-> "nil"]
    ELSE LET b1 == ConnWrite(b, "Say", PrivmsgPrefix \o Channel \o <<" ">> \o msg \o CRLF, ok)
         IN [bot |-> b1,
             err |-> IF b1.panic \/ LastWriteOk(b1) THEN "nil" ELSE "write"]

(* Say that drops the error of the write *)
SayDropsError(b, msg, ok) ==
    IF b.panic THEN [bot |-> b, err |-> "nil"]
    ELSE IF msg = <<>> THEN [bot |-> b, err |-> "empty"]
    ELSE [bot |-> ConnWrite(b, "Say", PrivmsgPrefix \o Channel \o <<" ">> \o msg \o CRLF, ok),
          err |-> "nil"]

(* Say: [bot, err]; err is "nil", "empty" (msg was empty) or "write" (the
   transport's write error) *)
Say(b, msg, ok) ==
    IF b.panic THEN [bot |-> b, err |-> "nil"]
    ELSE IF msg = <<>> THEN [bot |-> b, err |-> "empty"]
    ELSE LET b1 == ConnWrite(b, "Say", PrivmsgPrefix \o Channel \o <<" ">> \o msg \o CRLF, ok)
         IN [bot |-> b1,
             err |-> IF b1.panic \/ LastWriteOk(b1) THEN "nil" ELSE "write"]

(* Credential files: unreadable, or readable with the JSON tokens of its
   content (every token a sequence) *)
Tok(t) == <<t>>
CredFiles ==
    { [readable |-> FALSE, content |-> <<>>],
      [readable |-> TRUE,  content |-> <<>>],
      [readable |-> TRUE,  content |-> <<Tok("{"), Tok("}")>>],
      [readable |-> TRUE,  content |-> <<Tok("{"), Tok("password"), Tok(":"), Secret, Tok("}")>>],
      [readable |-> TRUE,  content |-> <<Tok("{"), Tok("password")>>] }

(* json.Decoder.Decode into an OAuthCred: io.EOF on empty input, a syntax
   error on a malformed value, otherwise the password field when present *)
Decode(content) ==
    IF Len(content) = 0 THEN [err |-> "EOF", Password |-> <<>>]
    ELSE IF content[1] # Tok("{") \/ content[Len(content)] # Tok("}")
         THEN [err |-> "syntax", Password |-> <<>>]
    ELSE IF Len(content) = 2 THEN [err |-> "nil", Password |-> <<>>]
    ELSE IF Len(content) = 5 /\ content[2] = Tok("password") /\ content[3] = Tok(":")
         THEN [err |-> "nil", Password |-> content[4]]
    ELSE [err |-> "syntax", Password |-> <<>>]

(* ReadCredentials that returns every error of Decode, io.EOF included *)
ReadCredentialsEofIsError(b, file) ==
    LET b0 == [b EXCEPT !.trace = Append(@, Ev("readfile", file.content, 0, file.readable))] IN
    IF ~file.readable THEN [bot |-> b0, err |-> TRUE]
    ELSE LET d == Decode(file.content)
         IN [bot |-> [b0 EXCEPT !.creds = <<d.Password>>],
             err |-> d.err # "nil"]

(* ReadCredentials: [bot, err]; err is TRUE when an error is returned *)
ReadCredentials(b, file) ==
    LET b0 == [b EXCEPT !.trace = Append(@, Ev("readfile", file.content, 0, file.readable))] IN
    IF ~file.readable THEN [bot |-> b0, err |-> TRUE]
    ELSE LET d == Decode(file.content)
         IN [bot |-> [b0 EXCEPT !.creds = <<d.Password>>],
             err |-> d.err # "nil" /\ d.err # "EOF"]

----------------------------------------------------------------------------
(* HandleChat *)

(* entry of HandleChat, up to the loop *)
HandleChatEnter(b) == Printf(b, "Watching")

(* a failed read that returns the error without Disconnect *)
ReadFailureNoDisconnect(b) ==
    [bot |-> [b EXCEPT !.trace = Append(Append(@, Ev("read", <<>>, 0, FALSE)),
                                        Ev("return", <<>>, 0, FALSE))],
     next |-> "err"]

(* a failed tp.ReadLine: Disconnect and return the error *)
ReadFailure(b) ==
    LET b1 == Disconnect([b EXCEPT !.trace = Append(@, Ev("read", <<>>, 0, FALSE))])
    IN [bot |-> IF b1.panic THEN b1
                ELSE [b1 EXCEPT !.trace = Append(@, Ev("return", <<>>, 0, FALSE))],
        next |-> "err"]

(* the keep-alive reply without the continue: falls through to the delay *)
KeepAliveThenSleep(b, wok) ==
    [bot |-> ConnWrite(b, "HandleChat", PongLine, wok), next |-> "sleep"]

(* the keep-alive reply with its write error handled like a read error:
   Disconnect and return the error *)
KeepAliveSurfacesError(b, wok) ==
    LET b1 == ConnWrite(b, "HandleChat", PongLine, wok) IN
    IF b1.panic \/ LastWriteOk(b1) THEN [bot |-> b1, next |-> "continue"]
    ELSE [bot |-> [Disconnect(b1) EXCEPT !.trace = Append(@, Ev("return", <<>>, 0, FALSE))],
          next |-> "err"]

(* the keep-alive probe: reply and continue *)
KeepAlive(b, wok) ==
    [bot |-> ConnWrite(b, "HandleChat", PongLine, wok), next |-> "continue"]

(* the shutdown command honoured from any user *)
ShutdownAnyUser(userName, msg) ==
    msg = ShutdownCmd

(* the comparison of userName and msg that selects the shutdown command *)
ShutdownRequested(userName, msg) ==
    userName = Channel /\ msg = ShutdownCmd

(* case "!tbdown" with Disconnect before the farewell *)
ShutdownDisconnectFirst(b, wok) ==
    LET b1 == Printf(b, "Shutdown command received")
        b2 == Disconnect(b1)
        b3 == Say(b2, Goodbye, wok).bot
    IN [bot |-> IF b3.panic THEN b3
                ELSE [b3 EXCEPT !.trace = Append(@, Ev("return", <<>>, 0, TRUE))],
        next |-> "nil"]

(* case "!tbdown" returning without Disconnect *)
ShutdownNoDisconnect(b, wok) ==
    LET b1 == Printf(b, "Shutdown command received")
        b2 == Say(b1, Goodbye, wok).bot
    IN [bot |-> IF b2.panic THEN b2
                ELSE [b2 EXCEPT !.trace = Append(@, Ev("return", <<>>, 0, TRUE))],
        next |-> "nil"]

(* case "!tbdown" returning the error of Say when the farewell fails *)
ShutdownReturnsSayError(b, wok) ==
    LET b1 == Printf(b, "Shutdown command received")
        r == Say(b1, Goodbye, wok)
        b3 == Disconnect(r.bot)
    IN [bot |-> IF b3.panic THEN b3
                ELSE [b3 EXCEPT !.trace = Append(@, Ev("return", <<>>, 0, r.err = "nil"))],
        next |-> IF r.err = "nil" THEN "nil" ELSE "err"]

(* case "!tbdown": farewell, Disconnect, return nil *)
Shutdown(b, wok) ==
    LET b1 == Printf(b, "Shutdown command received")
        b2 == Say(b1, Goodbye, wok).bot
        b3 == Disconnect(b2)
    IN [bot |-> IF b3.panic THEN b3
                ELSE [b3 EXCEPT !.trace = Append(@, Ev("return", <<>>, 0, TRUE))],
        next |-> "nil"]

(* the else branch indexing matches without the nil check: a line that does
   not match panics (index out of range) *)
DispatchNoNilCheck(b, line, wok) ==
    LET matches == FindStringSubmatch(line) IN
    IF matches = <<>> THEN [bot |-> Panic(b, "HandleChat"), next |-> "panic"]
    ELSE LET userName == matches[2]
             msgType == matches[3]
         IN IF msgType # PRIVMSG THEN [bot |-> b, next |-> "sleep"]
            ELSE LET msg == matches[4]
                     b1 == PrintChat(b, userName, msg)
                 IN IF ShutdownRequested(userName, msg)
                    THEN Shutdown(b1, wok)
                    ELSE [bot |-> b1, next |-> "sleep"]

(* the else branch with a continue after a chat message that is no command:
   the delay is skipped *)
DispatchContinueAfterChat(b, line, wok) ==
    LET matches == FindStringSubmatch(line) IN
    IF matches = <<>> THEN [bot |-> b, next |-> "sleep"]
    ELSE LET userName == matches[2]
             msgType == matches[3]
         IN IF msgType # PRIVMSG THEN [bot |-> b, next |-> "sleep"]
            ELSE LET msg == matches[4]
                     b1 == PrintChat(b, userName, msg)
                 IN IF ShutdownRequested(userName, msg)
                    THEN Shutdown(b1, wok)
                    ELSE [bot |-> b1, next |-> "continue"]

(* the else branch for a line that is not the probe: parse and dispatch *)
Dispatch(b, line, wok) ==
    LET matches == FindStringSubmatch(line) IN
    IF matches = <<>> THEN [bot |-> b, next |-> "sleep"]
    ELSE LET userName == matches[2]
             msgType == matches[3]
         IN IF msgType # PRIVMSG THEN [bot |-> b, next |-> "sleep"]
            ELSE LET msg == matches[4]
                     b1 == PrintChat(b, userName, msg)
                 IN IF ShutdownRequested(userName, msg)
                    THEN Shutdown(b1, wok)
                    ELSE [bot |-> b1, next |-> "sleep"]

(* one iteration of the loop of HandleChat: rok and line are the outcome of
   tp.ReadLine, wok the outcome of the write the iteration may make.
   [bot, next]; next is "loop" (the loop goes on), "nil" or "err" (HandleChat
   returns that), "panic" *)
HandleChatIter(b, rok, line, wok) ==
    IF b.conn = Nil THEN [bot |-> Panic(b, "HandleChat"), next |-> "panic"]
    ELSE IF ~rok THEN ReadFailure(b)
    ELSE LET b1 == Printf([b EXCEPT !.trace = Append(@, Ev("read", line, 0, TRUE))], "line")
             r == IF line = PingLine THEN KeepAlive(b1, wok) ELSE Dispatch(b1, line, wok)
         IN IF r.next = "sleep" THEN [bot |-> Sleep(r.bot, MsgRate), next |-> "loop"]
            ELSE IF r.next = "continue" THEN [bot |-> r.bot, next |-> "loop"]
            ELSE r

----------------------------------------------------------------------------
(* Start *)

(* Start that goes on to Connect whatever ReadCredentials returned *)
StartCredentialsIgnoreError(r) ==
    [bot |-> r.bot, next |-> "connect"]

(* Start after ReadCredentials returned: report and abort on an error *)
StartCredentials(r) ==
    IF r.err THEN [bot |-> Printf(Printf(r.bot, "err"), "Aborting"), next |-> "aborted"]
    ELSE [bot |-> r.bot, next |-> "connect"]

(* Start that returns after HandleChat whatever it returned *)
StartLoopEndGiveUp(b, err) ==
    [bot |-> b, next |-> "done"]

(* Start after HandleChat returned err ("nil" or "err"): on an error sleep,
   report and loop, otherwise return *)
StartLoopEnd(b, err) ==
    IF err # "nil"
    THEN [bot |-> Printf(Printf(Sleep(b, RetryDelayMs), "err"), "Starting again"),
          next |-> "connect"]
    ELSE [bot |-> b, next |-> "done"]

----------------------------------------------------------------------------
(* Inputs *)

Other == <<"a","n","n">>
ChannelUpper == <<"B","o","b">>
ShutdownUpper == <<"!","T","B","D","O","W","N">>
Hi == <<"h","i">>

(* ":user!user@user.tmi.twitch.tv PRIVMSG #<channel>" *)
ChatLineNoBody(user) ==
    <<":">> \o user \o <<"!">> \o user \o <<"@">> \o user \o <<".">> \o Tmi
        \o <<" ">> \o PRIVMSG \o <<" ","#">> \o Channel

(* ":user!user@user.tmi.twitch.tv PRIVMSG #<channel> :body" *)
ChatLine(user, body) == ChatLineNoBody(user) \o <<" ",":">> \o body

(* chat lines that are not the owner's shutdown command *)
OtherChatLines ==
    { ChatLine(Other, ShutdownCmd),
      ChatLine(ChannelUpper, ShutdownCmd),
      ChatLine(Channel, ShutdownUpper),
      ChatLine(Channel, ShutdownCmd \o <<" ">>),
      ChatLine(Channel, Hi),
      ChatLineNoBody(Channel) }

(* lines that match neither the probe nor the chat-message pattern *)
UnrecognizedLines ==
    { <<":">> \o Tmi \o <<" ","0","0","1">>,
      PingLine \o <<" ">>,
      <<":">> \o Channel \o <<"!">> \o Channel \o <<"@">> \o Channel \o <<".">> \o Tmi
          \o <<" ","J","O","I","N"," ","#">> \o Channel }

InboundLines ==
    {PingLine, ChatLine(Channel, ShutdownCmd)} \cup OtherChatLines \cup UnrecognizedLines

(* messages a client passes to Say *)
SayMessages == {<<>>, Hi, Goodbye}

----------------------------------------------------------------------------
(* State machine *)

Bot == [conn |-> conn, open |-> open, creds |-> creds, trace |-> trace, panic |-> FALSE]

(* the bot record with an empty window of events *)
Fresh == [Bot EXCEPT !.trace = <<>>]

Commit(b) ==
    /\ conn' = b.conn
    /\ open' = b.open
    /\ creds' = b.creds
    /\ trace' = b.trace

Init ==
    /\ pc = "start"
    /\ conn = Nil
    /\ open = {}
    /\ creds = <<>>
    /\ ret = "none"
    /\ inStart = TRUE
    /\ attempts = 0
    /\ reads = 0
    /\ trace = <<>>

(* Start, lines 185-190 *)
StartReadCredentials ==
    /\ pc = "start"
    /\ \E f \in CredFiles :
          LET r == StartCredentials(ReadCredentials(Bot, f))
          IN Commit(r.bot) /\ pc' = r.next
    /\ UNCHANGED <<ret, inStart, attempts, reads>>

(* Start, line 193 *)
StartConnect ==
    /\ pc = "connect"
    /\ attempts < MaxAttempts
    /\ \E ok \in BOOLEAN : Commit(Connect(Bot, attempts + 1, ok))
    /\ attempts' = attempts + 1
    /\ pc' = "join"
    /\ UNCHANGED <<ret, inStart, reads>>

(* Start, line 194 *)
StartJoinChannel ==
    /\ pc = "join"
    /\ \E o1, o2, o3 \in BOOLEAN :
          LET b == JoinChannel(Bot, o1, o2, o3)
          IN Commit(b) /\ pc' = IF b.panic THEN "crashed" ELSE "handlechat"
    /\ UNCHANGED <<ret, inStart, attempts, reads>>

(* Start, line 195: the call of HandleChat *)
StartHandleChat ==
    /\ pc = "handlechat"
    /\ Commit(HandleChatEnter(Bot))
    /\ pc' = "read"
    /\ ret' = "none"
    /\ reads' = 0
    /\ UNCHANGED <<inStart, attempts>>

(* one iteration of HandleChat's loop, the line read drawn from lines; on a
   closed handle the read fails *)
HandleChatRead(lines) ==
    /\ pc = "read"
    /\ reads < MaxReads
    /\ \E rok \in (IF conn \in open THEN BOOLEAN ELSE {FALSE}),
          line \in lines, wok \in BOOLEAN :
          LET r == HandleChatIter(Bot, rok, line, wok)
          IN /\ Commit(r.bot)
             /\ pc' = IF r.next = "loop" THEN "read"
                      ELSE IF r.bot.panic THEN "crashed"
                      ELSE IF inStart THEN "returned" ELSE "idle"
             /\ ret' = IF r.next \in {"nil", "err"} /\ ~r.bot.panic THEN r.next ELSE ret
    /\ reads' = reads + 1
    /\ UNCHANGED <<inStart, attempts>>

HandleChatStep == HandleChatRead(InboundLines)

(* Start, lines 196-203; the window of events restarts with the delay *)
StartAfterHandleChat ==
    /\ pc = "returned"
    /\ LET r == StartLoopEnd(IF ret = "err" THEN Fresh ELSE Bot, ret)
       IN Commit(r.bot) /\ pc' = r.next
    /\ UNCHANGED <<ret, inStart, attempts, reads>>

Next ==
    \/ StartReadCredentials
    \/ StartConnect
    \/ StartJoinChannel
    \/ StartHandleChat
    \/ HandleChatStep
    \/ StartAfterHandleChat

Spec == Init /\ [][Next]_vars

----------------------------------------------------------------------------
(* A client of the TwitchBot interface calling the methods one at a time;
   the window of events is that of the last call *)

InitAPI ==
    /\ pc = "idle"
    /\ conn = Nil
    /\ open = {}
    /\ creds = <<>>
    /\ ret = "none"
    /\ inStart = FALSE
    /\ attempts = 0
    /\ reads = 0
    /\ trace = <<>>

ApiReturn(b) ==
    /\ Commit(b)
    /\ pc' = IF b.panic THEN "crashed" ELSE "idle"

ApiReadCredentials ==
    /\ pc = "idle"
    /\ \E f \in CredFiles : ApiReturn(ReadCredentials(Fresh, f).bot)
    /\ UNCHANGED <<ret, inStart, attempts, reads>>

ApiConnect ==
    /\ pc = "idle"
    /\ attempts < MaxAttempts
    /\ \E ok \in BOOLEAN : ApiReturn(Connect(Fresh, attempts + 1, ok))
    /\ attempts' = attempts + 1
    /\ UNCHANGED <<ret, inStart, reads>>

ApiDisconnect ==
    /\ pc = "idle"
    /\ ApiReturn(Disconnect(Fresh))
    /\ UNCHANGED <<ret, inStart, attempts, reads>>

ApiJoinChannel ==
    /\ pc = "idle"
    /\ \E o1, o2, o3 \in BOOLEAN : ApiReturn(JoinChannel(Fresh, o1, o2, o3))
    /\ UNCHANGED <<ret, inStart, attempts, reads>>

ApiSay ==
    /\ pc = "idle"
    /\ \E msg \in SayMessages, ok \in BOOLEAN :
          LET r == Say(Fresh, msg, ok)
          IN /\ ApiReturn(r.bot)
             /\ ret' = r.err
    /\ UNCHANGED <<inStart, attempts, reads>>

ApiHandleChat ==
    /\ pc = "idle"
    /\ Commit(HandleChatEnter(Fresh))
    /\ pc' = "read"
    /\ ret' = "none"
    /\ reads' = 0
    /\ UNCHANGED <<inStart, attempts>>

NextAPI ==
    \/ ApiReadCredentials
    \/ ApiConnect
    \/ ApiDisconnect
    \/ ApiJoinChannel
    \/ ApiSay
    \/ ApiHandleChat
    \/ HandleChatStep

SpecAPI == InitAPI /\ [][NextAPI]_vars

----------------------------------------------------------------------------
(* A client that connects and runs HandleChat on well-formed chat lines with
   varied users, idents, hosts, channels and bodies *)

Ident == <<"i","d","7">>
Host == <<"h","_","0">>
RegexUsers == {Channel, <<"A","_","1">>}
RegexChans == {Channel, <<"c","h","4","t">>}
RegexBodies == {ShutdownCmd, <<"a"," ",":","b"," ","#","!">>, <<>>}

(* ":user!ident@host.tmi.twitch.tv PRIVMSG #chan" *)
WellFormed(user, ident, host, chan) ==
    <<":">> \o user \o <<"!">> \o ident \o <<"@">> \o host \o <<".">> \o Tmi
        \o <<" ">> \o PRIVMSG \o <<" ","#">> \o chan

RegexLines ==
    { WellFormed(u, Ident, Host, c) \o <<" ",":">> \o body :
          u \in RegexUsers, c \in RegexChans, body \in RegexBodies }
    \cup { WellFormed(u, Ident, Host, c) : u \in RegexUsers, c \in RegexChans }

HandleChatWide == HandleChatRead(RegexLines)

NextRegex ==
    \/ ApiConnect
    \/ ApiHandleChat
    \/ HandleChatWide

SpecRegex == InitAPI /\ [][NextRegex]_vars

----------------------------------------------------------------------------
(* Properties *)

IsIO(e) == e.op # "print"

(* the events of the window without the reports *)
IO == SelectSeq(trace, IsIO)

IsRead(e, line) == e.op = "read" /\ e.ok /\ e.data = line
IsWrite(e, data) == e.op = "write" /\ e.data = data

OwnerShutdownLine ==
    <<":","b","o","b","!","b","o","b","@","b","o","b",".",
      "t","m","i",".","t","w","i","t","c","h",".","t","v"," ",
      "P","R","I","V","M","S","G"," ","#","b","o","b"," ",":",
      "!","t","b","d","o","w","n">>

FarewellLine ==
    <<"P","R","I","V","M","S","G"," ","#","b","o","b"," ",
      "g","o","o","d","b","y","e","\r","\n">>

(* C1: once HandleChat has read the owner's "!tbdown" line, what follows is
   the write of "PRIVMSG #<channel> goodbye", then the close of the handle,
   which was open until then, then the return of nil, and nothing else. *)
C1_ShutdownSequence ==
    \A i \in 1..Len(IO) :
        IsRead(IO[i], OwnerShutdownLine) =>
            /\ Len(IO) = i + 3
            /\ IsWrite(IO[i + 1], FarewellLine)
            /\ IO[i + 2].op = "close" /\ IO[i + 2].ok
            /\ IO[i + 3].op = "return" /\ IO[i + 3].ok
            /\ ret = "nil"
            /\ conn \notin open
            /\ pc \in {"returned", "done"}

C1_Witness ==
    /\ pc = "returned"
    /\ ret = "nil"
    /\ \E i \in 1..Len(IO) :
          /\ IsRead(IO[i], OwnerShutdownLine)
          /\ IsWrite(IO[i + 1], FarewellLine) /\ IO[i + 1].ok

(* C2: a chat line that is not "!tbdown" from the user named like the channel
   (another user, another case, another body, no body) is followed by the
   delay alone: no write, no close, no return; the handle stays open and the
   next event is the next read. *)
C2_NoShutdownOtherwise ==
    \A i \in 1..Len(IO) :
        (IO[i].op = "read" /\ IO[i].ok /\ IO[i].data \in OtherChatLines) =>
            /\ Len(IO) >= i + 1
            /\ IO[i + 1].op = "sleep"
            /\ Len(IO) = i + 1 => (pc = "read" /\ conn \in open /\ ret = "none")
            /\ Len(IO) > i + 1 => IO[i + 2].op = "read"

C2_Witness ==
    /\ pc = "read"
    /\ conn \in open
    /\ \E i \in 1..Len(IO) : IsRead(IO[i], ChatLine(Other, ShutdownCmd))
    /\ \E i \in 1..Len(IO) : IsRead(IO[i], ChatLine(Channel, ShutdownUpper))

(* C3: a failed read is followed by the close of the handle and the return
   of an error; from there Start sleeps RetryDelayMs and goes to Connect,
   Connect dials and goes to JoinChannel, and JoinChannel runs on the new
   connection, at every attempt. *)
C3_ReadFailureClosesAndReturns ==
    \A i \in 1..Len(IO) :
        (IO[i].op = "read" /\ ~IO[i].ok) =>
            /\ Len(IO) = i + 2
            /\ IO[i + 1].op = "close" /\ IO[i + 1].ok
            /\ IO[i + 2].op = "return" /\ ~IO[i + 2].ok
            /\ ret = "err"
            /\ conn \notin open
            /\ pc = "returned"

C3_RetryStep ==
    /\ (pc = "returned" /\ ret = "err") =>
          /\ pc' = "connect"
          /\ IO' = <<Ev("sleep", <<>>, 1000, TRUE)>>
    /\ (pc = "connect" /\ attempts >= 1) =>
          /\ pc' = "join"
          /\ attempts' = attempts + 1
          /\ IO' = Append(IO, Ev("dial", <<>>, 0, conn' # Nil))
    /\ (pc = "join" /\ attempts >= 2 /\ conn # Nil) =>
          /\ pc' = "handlechat"
          /\ Len(IO') = Len(IO) + 3
          /\ \A k \in 1..3 : IO'[Len(IO) + k].op = "write"

C3_ReconnectAfterReadFailure ==
    [](C3_ReadFailureClosesAndReturns) /\ [][C3_RetryStep]_vars

C3_Witness ==
    /\ attempts = 2
    /\ pc = "handlechat"
    /\ Len(IO) = 5
    /\ IO[1] = Ev("sleep", <<>>, 1000, TRUE)
    /\ IO[2] = Ev("dial", <<>>, 0, TRUE)

(* C4: a failed Connect is reported, leaves bb.conn nil, and is followed by
   no write or read on the missing handle and by no crash. *)
C4_ConnectFailureNonFatal ==
    \A i \in 1..Len(trace) :
        (trace[i].op = "dial" /\ ~trace[i].ok) =>
            /\ Len(trace) > i /\ trace[i + 1] = Ev("print", <<"Cannot connect">>, 0, TRUE)
            /\ conn = Nil
            /\ \A k \in (i + 1)..Len(trace) : trace[k].op \notin {"write", "read", "panic"}
            /\ pc # "crashed"

(* C5: under Start at most one handle is open, it is the one bb.conn holds,
   it is open only from Connect to the Disconnect of HandleChat, and Start
   is at Connect only with every earlier handle closed. *)
C5_OneHandle ==
    /\ Cardinality(open) <= 1
    /\ open # {} => (open = {conn} /\ pc \in {"join", "handlechat", "read"})
    /\ pc \in {"connect", "returned", "done"} => open = {}

C5_Witness ==
    /\ attempts = 2
    /\ open = {2}
    /\ conn = 2
    /\ pc = "read"

(* C6: Disconnect called by a client while bb.conn is nil returns normally
   and changes neither the handle, nor the open handles, nor the credentials. *)
C6_DisconnectWithoutHandleStep ==
    (pc = "idle" /\ conn = Nil /\ ApiDisconnect) =>
        /\ pc' = "idle"
        /\ conn' = conn
        /\ open' = open
        /\ creds' = creds

C6_DisconnectWithoutHandleIsNoop == [][C6_DisconnectWithoutHandleStep]_vars

(* C7: a Disconnect that directly follows a Disconnect returns normally and
   leaves the handle closed and everything else as the first call left it. *)
C7_SecondDisconnectStep ==
    (pc = "idle" /\ trace # <<>> /\ trace[1].op = "close" /\ ApiDisconnect) =>
        /\ pc' = "idle"
        /\ conn' = conn
        /\ conn' \notin open'
        /\ open' = open
        /\ creds' = creds
        /\ trace'[1] = Ev("close", <<>>, 0, FALSE)

C7_DisconnectIdempotent == [][C7_SecondDisconnectStep]_vars

C7_Witness ==
    /\ pc = "idle"
    /\ reads = 0
    /\ conn # Nil
    /\ conn \notin open
    /\ trace # <<>>
    /\ trace[1] = Ev("close", <<>>, 0, FALSE)

(* C8: Start has returned normally only with HandleChat having returned nil
   after the shutdown command; from a nil return Start returns with no
   further step, and from an error return it goes back to Connect, whatever
   the number of earlier attempts. *)
C8_DoneOnlyAfterShutdown ==
    pc = "done" =>
        /\ ret = "nil"
        /\ open = {}
        /\ Len(IO) >= 4
        /\ IsRead(IO[Len(IO) - 3], OwnerShutdownLine)
        /\ IO[Len(IO)] = Ev("return", <<>>, 0, TRUE)

C8_StartStep ==
    /\ pc' = "done" => (pc = "returned" /\ ret = "nil" /\ attempts' = attempts /\ trace' = trace)
    /\ pc' = "aborted" => pc = "start"
    /\ (pc = "returned" /\ ret = "nil") => pc' = "done"
    /\ (pc = "returned" /\ ret = "err") => pc' = "connect"
    /\ pc \notin {"done", "aborted"}

C8_StartStopsOnlyOnShutdown ==
    [](C8_DoneOnlyAfterShutdown) /\ [][C8_StartStep]_vars

C8_Witness ==
    /\ pc = "done"
    /\ attempts = 2
    /\ ret = "nil"

(* C9: on a connection that Connect opened, once JoinChannel has run, the
   first three events are the writes of "PASS <secret>", "NICK <name>" and
   "JOIN #<channel>", in that order, each ended by CRLF; every read and every
   other write comes after them and none of the three lines is written again. *)
C9_AuthLines ==
    << <<"P","A","S","S"," ">> \o creds[1] \o <<"\r","\n">>,
       <<"N","I","C","K"," ","b","o","t","\r","\n">>,
       <<"J","O","I","N"," ","#","b","o","b","\r","\n">> >>

C9_JoinOrder ==
    \A d \in 1..Len(IO) :
        (IO[d].op = "dial" /\ IO[d].ok) =>
            IF pc = "join" THEN Len(IO) = d
            ELSE /\ Len(IO) >= d + 3
                 /\ \A k \in 1..3 : IsWrite(IO[d + k], C9_AuthLines[k])
                 /\ \A k \in (d + 4)..Len(IO) :
                       IO[k].op = "write" => \A j \in 1..3 : IO[k].data # C9_AuthLines[j]

C9_Witness ==
    /\ pc = "read"
    /\ reads = 1
    /\ creds = << <<"o","a","u","t","h",":","x">> >>
    /\ \E d \in 1..Len(IO) :
          /\ IO[d].op = "dial" /\ IO[d].ok
          /\ \A k \in 1..3 : IsWrite(IO[d + k], C9_AuthLines[k]) /\ IO[d + k].ok
          /\ Len(IO) > d + 3

(* C10: every read of "PING :tmi.twitch.tv" is followed by one write of
   "PONG: tmi.twitch.tv" with CRLF and then directly by the next read, with
   no delay between. *)
C10_Ping == <<"P","I","N","G"," ",":","t","m","i",".","t","w","i","t","c","h",".","t","v">>

C10_Pong ==
    <<"P","O","N","G",":"," ","t","m","i",".","t","w","i","t","c","h",".","t","v","\r","\n">>

C10_PingPong ==
    \A i \in 1..Len(IO) :
        IsRead(IO[i], C10_Ping) =>
            /\ Len(IO) >= i + 1
            /\ IsWrite(IO[i + 1], C10_Pong)
            /\ Len(IO) = i + 1 => (pc = "read" /\ conn \in open /\ ret = "none")
            /\ Len(IO) > i + 1 => IO[i + 2].op = "read"

C10_Witness ==
    \E i \in 1..Len(IO) :
        /\ Len(IO) = i + 3
        /\ IsRead(IO[i], C10_Ping)
        /\ IsWrite(IO[i + 1], C10_Pong)
        /\ IsRead(IO[i + 2], C10_Ping)
        /\ IsWrite(IO[i + 3], C10_Pong)

(* C11: Say with the empty message returns the empty-message error in
   every state, also with no handle, and the bot it leaves is the bot it
   found: no write, same handle, same open handles, same credentials. *)
C11_SayEmptyPure ==
    \A ok \in BOOLEAN : Say(Bot, <<>>, ok) = [bot |-> Bot, err |-> "empty"]

C11_SayEmptyStep ==
    (pc = "idle" /\ ret # "empty" /\ ret' = "empty") =>
        /\ pc' = "idle"
        /\ trace' = <<>>
        /\ conn' = conn
        /\ open' = open
        /\ creds' = creds

C11_SayEmptyNoWrite == [](C11_SayEmptyPure) /\ [][C11_SayEmptyStep]_vars

C11_Witness ==
    /\ pc = "idle"
    /\ ret = "empty"
    /\ trace = <<>>
    /\ conn \in open

(* C12: on a handle, Say with a non-empty message appends exactly one event,
   the write of "PRIVMSG #<channel> <message>" and CRLF, and returns nil when
   that write succeeded and the write's error when it failed. *)
C12_Line(msg) ==
    <<"P","R","I","V","M","S","G"," ","#","b","o","b"," ">> \o msg \o <<"\r","\n">>

C12_SayPure ==
    conn # Nil =>
        \A msg \in SayMessages \ {<<>>}, ok \in BOOLEAN :
            LET r == Say(Bot, msg, ok)
                sent == ok /\ conn \in open
            IN /\ r.bot = [Bot EXCEPT !.trace = Append(trace, Ev("write", C12_Line(msg), 0, sent))]
               /\ r.err = IF sent THEN "nil" ELSE "write"

C12_SayStep ==
    (pc = "idle" /\ Len(trace') = 1 /\ trace'[1].op = "write") =>
        /\ \E msg \in SayMessages \ {<<>>} : trace'[1].data = C12_Line(msg)
        /\ ret' = IF trace'[1].ok THEN "nil" ELSE "write"
        /\ pc' = "idle"
        /\ conn' = conn
        /\ open' = open
        /\ creds' = creds

C12_SayWritesOneLine == [](C12_SayPure) /\ [][C12_SayStep]_vars

C12_Witness ==
    /\ pc = "idle"
    /\ conn \in open
    /\ ret = "write"
    /\ trace = <<Ev("write", C12_Line(<<"h","i">>), 0, FALSE)>>

(* C13: when the credential file cannot be read or is malformed, Start
   reports the error and "Aborting..." and returns: no dial, no write, no
   read, no handle, and no step after it. *)
C13_LoadFailed(e) ==
    /\ e.op = "readfile"
    /\ ~e.ok \/ e.data = << <<"{">>, <<"password">> >>

C13_AbortedState ==
    pc = "aborted" =>
        /\ attempts = 0
        /\ conn = Nil
        /\ open = {}
        /\ Len(trace) = 3
        /\ C13_LoadFailed(trace[1])
        /\ trace[2] = Ev("print", <<"err">>, 0, TRUE)
        /\ trace[3] = Ev("print", <<"Aborting">>, 0, TRUE)

C13_StartStep ==
    /\ (pc = "start" /\ C13_LoadFailed(trace'[1])) => pc' = "aborted"
    /\ pc # "aborted"

C13_AbortOnCredentialFailure == [](C13_AbortedState) /\ [][C13_StartStep]_vars

C13_Witness ==
    /\ pc = "aborted"
    /\ trace[1] = Ev("readfile", << <<"{">>, <<"password">> >>, 0, TRUE)
    /\ attempts = 0

(* C14: a line that is neither the probe nor a chat message is echoed and
   followed by the delay alone: no write, no close, no return, no crash; the
   handle stays open and the next event is the next read. *)
C14_Unrecognized ==
    { <<":","t","m","i",".","t","w","i","t","c","h",".","t","v"," ","0","0","1">>,
      <<"P","I","N","G"," ",":","t","m","i",".","t","w","i","t","c","h",".","t","v"," ">>,
      <<":","b","o","b","!","b","o","b","@","b","o","b",".",
        "t","m","i",".","t","w","i","t","c","h",".","t","v"," ",
        "J","O","I","N"," ","#","b","o","b">> }

C14_UnrecognizedNoEffect ==
    \A i \in 1..Len(trace) :
        (trace[i].op = "read" /\ trace[i].ok /\ trace[i].data \in C14_Unrecognized) =>
            /\ Len(trace) >= i + 2
            /\ trace[i + 1] = Ev("print", <<"line">>, 0, TRUE)
            /\ trace[i + 2].op = "sleep"
            /\ Len(trace) = i + 2 => (pc = "read" /\ conn \in open /\ ret = "none")
            /\ Len(trace) > i + 2 => trace[i + 3].op = "read"

C14_Witness ==
    /\ pc = "read"
    /\ reads = 2
    /\ conn \in open
    /\ \A l \in C14_Unrecognized \ {<<":","t","m","i",".","t","w","i","t","c","h",".","t","v"," ","0","0","1">>} :
          \E i \in 1..Len(IO) : IsRead(IO[i], l)

(* C15: for a well-formed line ":user!id7@h_0.tmi.twitch.tv PRIVMSG #chan :body"
   the match yields that user and that body, and HandleChat reports
   "user: body"; for the same line without " :body" the match still succeeds,
   with that user and the empty body. *)
C15_Users == { <<"b","o","b">>, <<"A","_","1">> }
C15_Chans == { <<"b","o","b">>, <<"c","h","4","t">> }
C15_Bodies == { <<"!","t","b","d","o","w","n">>, <<"a"," ",":","b"," ","#","!">>, <<>> }

C15_Line(u, c) ==
    <<":">> \o u \o <<"!","i","d","7","@","h","_","0",".",
                      "t","m","i",".","t","w","i","t","c","h",".","t","v"," ",
                      "P","R","I","V","M","S","G"," ","#">> \o c

C15_Reported(line, u, body) ==
    /\ FindStringSubmatch(line) # <<>>
    /\ FindStringSubmatch(line)[2] = u
    /\ FindStringSubmatch(line)[4] = body
    /\ \A i \in 1..Len(trace) :
          IsRead(trace[i], line) =>
              /\ Len(trace) >= i + 2
              /\ trace[i + 2] = Ev("print", u \o <<":"," ">> \o body, 0, TRUE)

C15_Classification ==
    \A u \in C15_Users, c \in C15_Chans :
        /\ C15_Reported(C15_Line(u, c), u, <<>>)
        /\ \A body \in C15_Bodies :
              C15_Reported(C15_Line(u, c) \o <<" ",":">> \o body, u, body)

C15_Witness ==
    /\ pc = "read"
    /\ Len(trace) >= 8
    /\ IsRead(trace[2], C15_Line(<<"A","_","1">>, <<"c","h","4","t">>)
                           \o <<" ",":","a"," ",":","b"," ","#","!">>)
    /\ trace[4] = Ev("print", <<"A","_","1",":"," ","a"," ",":","b"," ","#","!">>, 0, TRUE)
    /\ IsRead(trace[6], C15_Line(<<"A","_","1">>, <<"b","o","b">>))
    /\ trace[8] = Ev("print", <<"A","_","1",":"," ">>, 0, TRUE)

(* C16: whenever HandleChat has returned, by a failed read or by the
   shutdown command, the event before the return is the close of the handle,
   which was open until then, and no handle is open afterwards. *)
C16_ClosedBeforeReturn ==
    /\ \A i \in 1..Len(IO) :
          IO[i].op = "return" =>
              /\ i > 1
              /\ IO[i - 1].op = "close" /\ IO[i - 1].ok
              /\ open = {}
    /\ pc \in {"returned", "done"} => (conn # Nil /\ conn \notin open /\ open = {})

C16_Witness ==
    /\ pc = "returned"
    /\ ret = "err"
    /\ reads = 2
    /\ conn # Nil
    /\ open = {}
    /\ IO[Len(IO)] = Ev("return", <<>>, 0, FALSE)
    /\ IO[Len(IO) - 1] = Ev("close", <<>>, 0, TRUE)

(* C17: a line read that is neither the probe nor the owner's shutdown
   command is followed by one sleep of MsgRate and then by the next read;
   and a read is preceded by that sleep unless it is the first read of the
   connection or follows the reply to a probe. *)
C17_DelayAfterLine ==
    /\ \A i \in 1..Len(IO) :
          (IO[i].op = "read" /\ IO[i].ok /\ IO[i].data # C10_Ping
              /\ IO[i].data # OwnerShutdownLine) =>
              /\ Len(IO) >= i + 1
              /\ IO[i + 1] = Ev("sleep", <<>>, MsgRate, TRUE)
              /\ Len(IO) > i + 1 => IO[i + 2].op = "read"
    /\ \A j \in 2..Len(IO) :
          IO[j].op = "read" =>
              \/ IO[j - 1] = Ev("sleep", <<>>, MsgRate, TRUE) /\ j > 2 /\ IO[j - 2].op = "read"
              \/ IO[j - 1].op = "write" /\ IO[j - 1].data = C10_Pong
              \/ IO[j - 1].op = "write"
                 /\ IO[j - 1].data = <<"J","O","I","N"," ","#","b","o","b","\r","\n">>

C17_Witness ==
    /\ pc = "read"
    /\ reads = 2
    /\ \E i \in 1..Len(IO) :
          /\ Len(IO) = i + 3
          /\ IsRead(IO[i], ChatLine(Channel, Hi))
          /\ IO[i + 1] = Ev("sleep", <<>>, MsgRate, TRUE)
          /\ IsRead(IO[i + 2], PingLine \o <<" ">>)
          /\ IO[i + 3] = Ev("sleep", <<>>, MsgRate, TRUE)

(* C18: a failed write of PASS, NICK, JOIN or PONG is followed by the next
   write of JoinChannel or by a read, never by a close, a return or a crash;
   the handle stays open and Start goes on to HandleChat; HandleChat returns
   only after a failed read or the owner's shutdown command. *)
C18_WriteFailureIgnored ==
    /\ \A i \in 1..Len(IO) :
          (IO[i].op = "write" /\ ~IO[i].ok /\ IO[i].data # FarewellLine) =>
              /\ i < Len(IO) => IO[i + 1].op \in {"write", "read"}
              /\ i = Len(IO) => (pc \in {"handlechat", "read"} /\ conn \in open)
    /\ \A i \in 1..Len(IO) :
          IO[i].op = "return" =>
              \/ i > 2 /\ IO[i - 2].op = "read" /\ ~IO[i - 2].ok
              \/ i > 3 /\ IsRead(IO[i - 3], OwnerShutdownLine)
    /\ pc = "crashed" => conn = Nil

C18_Witness ==
    /\ pc = "read"
    /\ reads = 2
    /\ conn \in open
    /\ \E d \in 1..Len(IO) :
          /\ Len(IO) >= d + 6
          /\ IO[d].op = "dial"
          /\ \A k \in 1..3 : IO[d + k].op = "write" /\ ~IO[d + k].ok
          /\ IsRead(IO[d + 4], C10_Ping)
          /\ IsWrite(IO[d + 5], C10_Pong) /\ ~IO[d + 5].ok
          /\ IO[d + 6].op = "read"

(* C19: when the farewell write after the owner's "!tbdown" fails, the
   handle is still closed, HandleChat still returns nil, and Start then
   returns without another Connect. *)
C19_FarewellFailed ==
    \E i \in 1..Len(IO) :
        /\ Len(IO) >= i + 1
        /\ IsRead(IO[i], OwnerShutdownLine)
        /\ IO[i + 1].op = "write" /\ ~IO[i + 1].ok

C19_CleanState ==
    C19_FarewellFailed =>
        /\ IO[Len(IO) - 2] = Ev("write", FarewellLine, 0, FALSE)
        /\ IO[Len(IO) - 1] = Ev("close", <<>>, 0, TRUE)
        /\ IO[Len(IO)] = Ev("return", <<>>, 0, TRUE)
        /\ ret = "nil"
        /\ open = {}
        /\ pc \in {"returned", "done"}

C19_CleanStep ==
    C19_FarewellFailed => (pc' = "done" /\ attempts' = attempts /\ trace' = trace)

C19_ShutdownDespiteWriteFailure == [](C19_CleanState) /\ [][C19_CleanStep]_vars

C19_Witness ==
    /\ pc = "done"
    /\ attempts = 2
    /\ C19_FarewellFailed

(* C20: Start aborts only when the credential file is unreadable or
   malformed; with a readable empty file ReadCredentials succeeds with the
   empty password, Start goes on to Connect, and the first line JoinChannel
   writes is "PASS " followed directly by CRLF. *)
C20_EmptyFile == Ev("readfile", <<>>, 0, TRUE)

C20_EmptyPass == <<"P","A","S","S"," ","\r","\n">>

C20_LoadStep ==
    pc = "start" =>
        /\ pc' = "aborted" =>
              (~trace'[1].ok \/ trace'[1].data = << <<"{">>, <<"password">> >>)
        /\ trace'[1] = C20_EmptyFile =>
              (pc' = "connect" /\ creds' = << <<>> >> /\ trace' = <<C20_EmptyFile>>)

C20_EmptySecretSent ==
    (Len(trace) > 0 /\ trace[1] = C20_EmptyFile) =>
        /\ pc # "aborted"
        /\ creds = << <<>> >>
        /\ \A d \in 1..Len(IO) :
              (IO[d].op = "dial" /\ IO[d].ok /\ pc # "join") =>
                  (Len(IO) > d /\ IsWrite(IO[d + 1], C20_EmptyPass))

C20_EmptyCredentialFile == [](C20_EmptySecretSent) /\ [][C20_LoadStep]_vars

C20_Witness ==
    /\ pc = "read"
    /\ Len(IO) >= 5
    /\ IO[1] = C20_EmptyFile
    /\ IO[2] = Ev("dial", <<>>, 0, TRUE)
    /\ IO[3] = Ev("write", C20_EmptyPass, 0, TRUE)

====
